---- MODULE Spec2Model ----
(***************************************************************************)
(* Session engine of the Krav Maga trainer: SessionManager (state machine, *)
(* countdown interval, announcement timeout, snapshot persistence) and the *)
(* weighted random selection strategy it is initialised with.              *)
(*                                                                         *)
(* Browser timers are modelled as the set of live handles together with    *)
(* the closure each callback captured; a timer callback is an action that  *)
(* may fire whenever its handle is live.  The wall clock read by           *)
(* Date.now() is a variable of its own, advanced by TimePasses.            *)
(* localStorage calls may throw; each call succeeds or throws.             *)
(* KravMagaTrainerApp drives the engine through its button handlers and    *)
(* runs the announcement loop that plays the audio of the current          *)
(* technique; a playback is awaited and settles in a step of its own.      *)
(* Sessions last MIN_DURATION minutes: 60 countdown ticks and one more.    *)
(***************************************************************************)
EXTENDS Integers, Sequences, FiniteSets, TLC

VARIABLES
    isActive,                 \* SessionManager._isActive
    isPaused,                 \* SessionManager._isPaused
    sessionTimer,             \* handle held by the field, 0 = null
    techniqueTimer,           \* handle held by the field, 0 = null
    remainingTime,
    sessionDuration,
    currentTechnique,
    techniquesUsed,
    currentFightList,
    sessionStats,
    consecutiveAudioFailures,
    intervals,                \* live setInterval handles of the window
    timeouts,                 \* pending setTimeout handles, each with its captured config
    store,                    \* localStorage[kravMagaSessionState]: <<>> or <<snapshot>>
    now,                      \* Date.now(), milliseconds
    thrown,                   \* error thrown in the latest step, "none" if there was none
    completeCalls,            \* onSessionComplete invocations made in the latest step
    ticksSinceStart,          \* countdown callbacks run since the latest start of a session
                              \* that was not paused, stopped or restored since; -1 otherwise
    loopsWaiting,             \* KravMagaTrainerApp: pending setTimeout(announceNextTechnique)
    loopsPlaying,             \* announceNextTechnique runs suspended at their await of the playback
    played,                   \* technique whose playback the latest step triggered, null if none
    failStreak,               \* playbacks that failed since the latest success or session start,
                              \* counted up to MAX_CONSECUTIVE_AUDIO_FAILURES
    selectionStrategy,        \* SessionManager.selectionStrategy: the type of the strategy object
    currentIndex,             \* the object's currentIndex if it is a round-robin one, 0 otherwise
    pool,                     \* argument of the latest direct call of selectTechnique on the object
    draw,                     \* Math.random() * RandomGrain in that call
    result,                   \* what that call returned, null if it threw or was never made
    window,                   \* results of the latest consecutive direct calls made with that
                              \* same pool, the latest Len(pool) of them at most
    poolChanged,              \* the object was called directly with two different pools
    fightLists,               \* FightListManager.fightLists
    currentFightListId,       \* FightListManager.currentFightListId, 0 = null
    isInitialized,            \* FightListManager.isInitialized
    generatedIds,             \* ids generateId has handed out
    lastPlayedAt              \* techniquesUsed when the latest playback of the session was
                              \* triggered, 0 if it had none yet

vars == <<isActive, isPaused, sessionTimer, techniqueTimer, remainingTime,
          sessionDuration, currentTechnique, techniquesUsed, currentFightList,
          sessionStats, consecutiveAudioFailures, intervals, timeouts, store,
          now, thrown, completeCalls, ticksSinceStart,
          loopsWaiting, loopsPlaying, played, failStreak,
          selectionStrategy, currentIndex, pool, draw, result, window, poolChanged,
          fightLists, currentFightListId, isInitialized, generatedIds,
          lastPlayedAt>>

\* the in-memory fields of SessionManager
engineVars == <<isActive, isPaused, sessionTimer, techniqueTimer, remainingTime,
                sessionDuration, currentTechnique, techniquesUsed,
                currentFightList, sessionStats, consecutiveAudioFailures>>

\* the announcement loops of KravMagaTrainerApp and what is observed of them
appVars == <<loopsWaiting, loopsPlaying, played, failStreak, lastPlayedAt>>

\* the strategy object the SessionManager holds
strategyVars == <<selectionStrategy, currentIndex>>

\* what is observed of the calls made on the strategy object directly
callVars == <<pool, draw, result, window, poolChanged>>

\* the FightListManager of one page life
managerVars == <<fightLists, currentFightListId, isInitialized, generatedIds>>

-----------------------------------------------------------------------------
(* Bounds of the model *)

MaxTechniquesUsed == 2    \* announcement wake-ups stop being taken at this count
MaxTimers == 3            \* window timer handles 1..MaxTimers
RandomGrain == 3          \* Math.random() takes the values k / RandomGrain
MaxClockSteps == 1        \* the clock stops advancing after this many steps
MaxLoops == 2             \* announcement loops of the application alive at once
MaxAppTicks == 1          \* countdown ticks SpecApp follows each session for
MaxPoolLen == 3           \* longest pool selectTechnique is called with directly
MaxGeneratedIds == 3      \* fight lists created in one page life
MaxImportLen == 2         \* longest array importFightLists is given

-----------------------------------------------------------------------------
(* Program constants *)

MIN_DURATION == 1
MIN_DELAY == 1
SESSION_RESTORE_TIME_LIMIT == 5 * 60 * 1000
SESSION_SAVE_INTERVAL == 30
MAX_CONSECUTIVE_AUDIO_FAILURES == 3

\* granularity of the modelled clock: the restore window, so that a snapshot
\* is loaded at an age below the limit, at the limit itself or above it
ClockStep == SESSION_RESTORE_TIME_LIMIT

SESSION_ALREADY_ACTIVE == "Session already active"
NO_TECHNIQUES_AVAILABLE == "No techniques available for selection"

MAX_FIGHT_LISTS == 50
NOT_INITIALIZED == "FightListManager not initialized"
FAILED_TO_INITIALIZE == "Failed to initialize FightListManager"
FIGHT_LIST_NAME_INVALID == "Fight list name is required / already exists"
FIGHT_LIST_MAX_REACHED == "Maximum number of fight lists reached (50)"
CANNOT_DELETE_LAST_FIGHT_LIST == "Cannot delete the last remaining fight list"
FIGHT_LIST_NOT_FOUND == "Fight list not found"
FAILED_TO_SAVE == "Failed to save"
MAX_TECHNIQUES_PER_LIST == 100
\* ERROR_MESSAGES has no MAX_TECHNIQUES_PER_LIST_REACHED: new Error(undefined)
MAX_TECHNIQUES_PER_LIST_REACHED == ""
TECHNIQUE_ALREADY_EXISTS == "Technique already exists in fight list"
TECHNIQUE_NOT_FOUND == "Technique not found in fight list"

\* reading a property of undefined
TYPE_ERROR == "TypeError"

\* STRATEGY_TYPES
RANDOM == "random"
ROUND_ROBIN == "roundRobin"
PRIORITY_BASED == "priorityBased"

\* PRIORITY_LEVELS
HIGH == "high"
MEDIUM == "medium"
LOW == "low"
SELECT_AT_LEAST_ONE == "Please select at least one technique in <fightList.name>"

\* number values of JavaScript that are not naturals
Absent == -1              \* property missing (undefined)
NaN == -2
Null == -3                \* what JSON.stringify makes of NaN

\* TECHNIQUE_CATEGORIES of the constants module has no HAND_GRIP member, so the
\* computed key [TECHNIQUE_CATEGORIES.HAND_GRIP] is the string "undefined".
InitialisedKeys == {"Punches", "Strikes", "Kicks", "Knees", "Defenses/Grabs",
                    "Weapons", "undefined"}
TechniqueCategory == {"Punches", "Strikes", "Kicks", "Knees", "Defenses/Grabs",
                      "Weapons", "Hand-Grip", "Knife"}
StatKeys == InitialisedKeys \cup TechniqueCategory

-----------------------------------------------------------------------------
(* Techniques, configurations and fight lists the operations are called with *)

Tech(n, c, p, s, w) ==
    [name |-> n, category |-> c, priority |-> p, selected |-> s, weight |-> w]

NullTechnique == Tech("null", "null", "null", FALSE, 0)

\* the value undefined where a technique is expected
Undefined == Tech("undefined", "undefined", "undefined", FALSE, 0)

TJab == Tech("Jab", "Punches", "high", TRUE, 1)
TCross == Tech("Cross", "Punches", "medium", TRUE, 1)
TElbow == Tech("Elbow", "Strikes", "low", FALSE, 1)

Pools == { <<TElbow>>, <<TJab, TCross>> }

\* techniques of weight zero and of negative weight
TKnee == Tech("Knee", "Knees", "low", TRUE, 0)
THook == Tech("Hook", "Punches", "low", TRUE, -1)

\* the pools selectTechnique is called with directly: every list of at most
\* MaxPoolLen different techniques
StrategyPools ==
    { p \in UNION { [1..n -> {TJab, TCross, TKnee, THook}] : n \in 0..MaxPoolLen } :
        \A i, j \in 1..Len(p) : p[i] = p[j] => i = j }

\* the arguments createStrategy is called with: the three types and one more
StrategyTypes == {RANDOM, ROUND_ROBIN, PRIORITY_BASED, "other"}

\* a technique of the default list whose category resetSessionStats leaves out
TKnife == Tech("Right Hand Knife Top Front Attack", "Knife", "high", TRUE, 1)

\* sessions of the shortest duration and delay the configuration allows
Configs == [duration : {MIN_DURATION}, delay : {MIN_DELAY}, techniques : Pools]

\* a configuration with techniques of the categories Punches and Knife
KnifeConfigs ==
    [duration : {MIN_DURATION}, delay : {MIN_DELAY}, techniques : {<<TJab, TKnife>>}]

FLTech(t, p, s) == [techniqueId |-> t, priority |-> p, selected |-> s]

NullFightList == [name |-> "null", techniques |-> <<>>]

FightLists ==
    { [name |-> "Basics",
       techniques |-> <<FLTech("Jab", 3, TRUE), FLTech("Cross", 1, FALSE)>>],
      [name |-> "Unselected",
       techniques |-> <<FLTech("Jab", 3, FALSE)>>] }

\* the fight lists of the sessions followed on their own: one more, whose
\* selected techniques are in another order than the configuration has them,
\* one of them deselected in the configuration
SessionFightLists ==
    FightLists \cup
    { [name |-> "Mixed",
       techniques |-> <<FLTech("Elbow", 2, TRUE), FLTech("Cross", 1, TRUE),
                        FLTech("Jab", 5, TRUE)>>] }

-----------------------------------------------------------------------------
(* Pure helpers *)

\* the pool taken without its filter
AllOf(techniques) == techniques

\* techniques.filter(t => t.selected)
SelectedOf(techniques) == LET Sel(t) == t.selected IN SelectSeq(techniques, Sel)

RECURSIVE SumWeights(_)
SumWeights(s) == IF s = <<>> THEN 0 ELSE Head(s).weight + SumWeights(Tail(s))

\* a loop that stops only when its cursor is negative
RECURSIVE WeightedWalkStrict(_, _, _)
WeightedWalkStrict(techniques, i, cursor) ==
    IF i > Len(techniques) THEN techniques[1]
    ELSE LET c == cursor - RandomGrain * techniques[i].weight
         IN IF c < 0 THEN techniques[i] ELSE WeightedWalkStrict(techniques, i + 1, c)

\* the for loop of RandomTechniqueSelectionStrategy.selectTechnique; the cursor
\* is kept multiplied by RandomGrain so that it stays an integer
RECURSIVE WeightedWalk(_, _, _)
WeightedWalk(techniques, i, cursor) ==
    IF i > Len(techniques) THEN techniques[1]
    ELSE LET c == cursor - RandomGrain * techniques[i].weight
         IN IF c <= 0 THEN techniques[i] ELSE WeightedWalk(techniques, i + 1, c)

\* a selection without the weights: element floor(Math.random() * length)
UniformSelect(techniques, k) ==
    techniques[((k * Len(techniques)) \div RandomGrain) + 1]

\* selectTechnique(techniques) when Math.random() returns k / RandomGrain
RandomSelect(techniques, k) ==
    WeightedWalk(techniques, 1, k * SumWeights(techniques))

\* techniques[index] of JavaScript, index counted from 0
At(techniques, index) ==
    IF index \in 0..(Len(techniques) - 1) THEN techniques[index + 1] ELSE Undefined

\* a cursor that stays where it is
CursorKept(techniques, index) == index

\* RoundRobinTechniqueSelectionStrategy: (this.currentIndex + 1) % techniques.length
CursorAdvanced(techniques, index) == (index + 1) % Len(techniques)

\* techniques.filter(t => t.priority === priority)
WithPriority(techniques, priority) ==
    LET Has(t) == t.priority = priority IN SelectSeq(techniques, Has)

\* selectRandomFromGroup when Math.random() returns k / RandomGrain
SelectRandomFromGroup(techniques, k) ==
    At(techniques, (k * Len(techniques)) \div RandomGrain)

\* a choice of bucket that prefers the medium priority
PrioritySelectMediumFirst(techniques, k) ==
    IF WithPriority(techniques, MEDIUM) # <<>>
    THEN SelectRandomFromGroup(WithPriority(techniques, MEDIUM), k)
    ELSE IF WithPriority(techniques, HIGH) # <<>>
    THEN SelectRandomFromGroup(WithPriority(techniques, HIGH), k)
    ELSE SelectRandomFromGroup(WithPriority(techniques, LOW), k)

\* PriorityBasedTechniqueSelectionStrategy.selectTechnique on a non-empty pool
PrioritySelect(techniques, k) ==
    IF WithPriority(techniques, HIGH) # <<>>
    THEN SelectRandomFromGroup(WithPriority(techniques, HIGH), k)
    ELSE IF WithPriority(techniques, MEDIUM) # <<>>
    THEN SelectRandomFromGroup(WithPriority(techniques, MEDIUM), k)
    ELSE SelectRandomFromGroup(WithPriority(techniques, LOW), k)

\* a factory that knows the random strategy only
CreateRandomOnly(type) == RANDOM

\* TechniqueSelectionStrategyFactory.createStrategy: the type of the object made
CreateStrategy(type) ==
    IF type \in {ROUND_ROBIN, PRIORITY_BASED} THEN type ELSE RANDOM

\* selectTechnique(techniques) of the strategy object (type, index) on a
\* non-empty pool when Math.random() returns k / RandomGrain: the technique
\* returned and the cursor left behind
SelectTechnique(type, index, techniques, k) ==
    IF type = ROUND_ROBIN
    THEN [technique |-> At(techniques, index),
          currentIndex |-> CursorAdvanced(techniques, index)]
    ELSE IF type = PRIORITY_BASED
    THEN [technique |-> PrioritySelect(techniques, k), currentIndex |-> index]
    ELSE [technique |-> RandomSelect(techniques, k), currentIndex |-> index]

\* x++ on a property of techniquesByCategory
Incremented(v) ==
    IF v = Absent \/ v = NaN THEN NaN
    ELSE IF v = Null THEN 1
    ELSE v + 1

\* JSON.parse(JSON.stringify(x)) on a number-valued property
JsonNumber(v) == IF v = NaN THEN Null ELSE v

ZeroStats ==
    [totalTechniques |-> 0,
     techniquesByCategory |->
         [k \in StatKeys |-> IF k \in InitialisedKeys THEN 0 ELSE Absent],
     sessionDuration |-> 0]

\* updateSessionStats
UpdatedStats(stats, technique) ==
    [stats EXCEPT !.totalTechniques = @ + 1,
                  !.techniquesByCategory[technique.category] = Incremented(@)]

JsonStats(stats) ==
    [totalTechniques |-> JsonNumber(stats.totalTechniques),
     techniquesByCategory |->
         [k \in StatKeys |-> JsonNumber(stats.techniquesByCategory[k])],
     sessionDuration |-> JsonNumber(stats.sessionDuration)]

\* the object saveSessionState serialises, as JSON.parse gives it back
Snapshot(act, paus, rem, dur, used, stats, fl, ts) ==
    [isActive |-> act, isPaused |-> paus, remainingTime |-> rem,
     sessionDuration |-> dur, techniquesUsed |-> used,
     sessionStats |-> JsonStats(stats), currentFightList |-> fl,
     timestamp |-> ts]

TimerIds == 1..MaxTimers

\* handles that are live, or held by the field the new handle is not assigned to
UsedIds(ivs, tos, otherField) == ivs \cup {t.id : t \in tos} \cup {otherField}

HasFreeId(ivs, tos, otherField) == TimerIds \ UsedIds(ivs, tos, otherField) # {}

\* window.setInterval / window.setTimeout return a handle no live timer has
FreshId(ivs, tos, otherField) ==
    CHOOSE i \in TimerIds \ UsedIds(ivs, tos, otherField) :
        \A j \in TimerIds \ UsedIds(ivs, tos, otherField) : i <= j

-----------------------------------------------------------------------------
(* Initial state: a freshly constructed SessionManager, an empty store *)

Init ==
    /\ isActive = FALSE
    /\ isPaused = FALSE
    /\ sessionTimer = 0
    /\ techniqueTimer = 0
    /\ remainingTime = 0
    /\ sessionDuration = 0
    /\ currentTechnique = NullTechnique
    /\ techniquesUsed = 0
    /\ currentFightList = NullFightList
    /\ sessionStats = ZeroStats
    /\ consecutiveAudioFailures = 0
    /\ intervals = {}
    /\ timeouts = {}
    /\ store = <<>>
    /\ now = 0
    /\ thrown = "none"
    /\ completeCalls = 0
    /\ ticksSinceStart = -1
    /\ loopsWaiting = 0
    /\ loopsPlaying = 0
    /\ played = NullTechnique
    /\ failStreak = 0
    /\ selectionStrategy = RANDOM
    /\ currentIndex = 0
    /\ pool = <<>>
    /\ draw = 0
    /\ result = NullTechnique
    /\ window = <<>>
    /\ poolChanged = FALSE
    /\ fightLists = <<>>
    /\ currentFightListId = 0
    /\ isInitialized = FALSE
    /\ generatedIds = 0
    /\ lastPlayedAt = 0

-----------------------------------------------------------------------------
(* Private methods, as the values they leave behind *)

\* config.duration * 60 with the unit forgotten
DurationMinutes(config) == config.duration

\* config.duration * 60, "Convert to seconds"
DurationSeconds(config) == config.duration * 60

\* a start guard that lets a paused session be started over
AlreadyRunning == isActive /\ ~isPaused

\* if (this._isActive) of startSession and startSessionWithFightList
AlreadyActive == isActive

\* a pause guard that is missing
CanPauseAlways == TRUE

\* the guard of pauseSession: if (!this._isActive) return
CanPause == isActive

\* a resume guard that forgets the paused flag
CanResumeActive == isActive

\* the guard of resumeSession: if (!this._isActive || !this._isPaused) return
CanResume == isActive /\ isPaused

\* a countdown test that lets the time go below zero
TimeLeftInclusive == remainingTime >= 0

\* the test of the countdown callback: if (this.remainingTime > 0)
TimeLeft == remainingTime > 0

\* saveSessionState: localStorage.setItem succeeds (ok) or throws and is swallowed
SavedStore(ok, act, paus, rem, dur, used, stats, fl) ==
    IF ok THEN << Snapshot(act, paus, rem, dur, used, stats, fl, now) >> ELSE store

\* clearSessionState: localStorage.removeItem succeeds (ok) or throws and is swallowed
ClearedStore(ok) == IF ok THEN <<>> ELSE store

\* stopSessionTimer without its clearInterval
IntervalsLeaked == intervals

\* stopSessionTimer: the live intervals it leaves
IntervalsAfterStop == IF sessionTimer # 0 THEN intervals \ {sessionTimer} ELSE intervals

\* stopTechniqueTimer without its clearTimeout
TimeoutsLeaked == timeouts

\* stopTechniqueTimer: the pending timeouts it leaves
TimeoutsAfterStop ==
    IF techniqueTimer # 0 THEN {t \in timeouts : t.id # techniqueTimer} ELSE timeouts

\* a scheduleNextTechnique that lets the delay pass before its first selection
ScheduleAfterDelay(config, used, stats, ivs, tos, st) ==
    /\ HasFreeId(ivs, tos, st)
    /\ currentTechnique' = NullTechnique
    /\ techniquesUsed' = used
    /\ sessionStats' = stats
    /\ timeouts' = tos \cup {[id |-> FreshId(ivs, tos, st), config |-> config]}
    /\ techniqueTimer' = FreshId(ivs, tos, st)
    /\ UNCHANGED currentIndex

\* scheduleNextTechnique(config) followed by announceTechnique, run when the
\* session is active and not paused and currentTechnique is null, the counters
\* being used and stats and the live timers ivs and tos; Math.random() returns
\* some k / RandomGrain.  A strategy that returns undefined makes
\* updateSessionStats throw at technique.category, after the counters were
\* incremented and before the next timeout is set.
ScheduleNextTechnique(config, used, stats, ivs, tos, st) ==
    LET selectedTechniques == SelectedOf(config.techniques) IN
    IF selectedTechniques = <<>>
    THEN /\ currentTechnique' = NullTechnique
         /\ techniquesUsed' = used
         /\ sessionStats' = stats
         /\ timeouts' = tos
         /\ UNCHANGED <<techniqueTimer, currentIndex>>
    ELSE \E k \in 0..(RandomGrain - 1) :
         LET call == SelectTechnique(selectionStrategy, currentIndex,
                                     selectedTechniques, k)
             technique == call.technique
             id == FreshId(ivs, tos, st)
         IN /\ currentIndex' = call.currentIndex
            /\ currentTechnique' = technique
            /\ techniquesUsed' = used + 1
            /\ IF technique = Undefined
               THEN /\ sessionStats' = [stats EXCEPT !.totalTechniques = @ + 1]
                    /\ timeouts' = tos
                    /\ UNCHANGED techniqueTimer
               ELSE /\ HasFreeId(ivs, tos, st)
                    /\ sessionStats' = UpdatedStats(stats, technique)
                    /\ timeouts' = tos \cup {[id |-> id, config |-> config]}
                    /\ techniqueTimer' = id

\* what leaves an operation that ran scheduleNextTechnique
ThrownByAnnouncement == IF currentTechnique' = Undefined THEN TYPE_ERROR ELSE "none"

\* the part of startSession after the already-active check; fl is the value
\* of currentFightList at that point
StartBody(config, fl, ok) ==
    LET id == FreshId(intervals, timeouts, techniqueTimer) IN
    /\ HasFreeId(intervals, timeouts, techniqueTimer)
    /\ isActive' = TRUE
    /\ isPaused' = FALSE
    /\ remainingTime' = DurationSeconds(config)
    /\ sessionDuration' = DurationSeconds(config)
    /\ consecutiveAudioFailures' = 0
    /\ currentFightList' = fl
    /\ store' = SavedStore(ok, TRUE, FALSE, DurationSeconds(config),
                           DurationSeconds(config), 0, ZeroStats, fl)
    /\ sessionTimer' = id
    /\ intervals' = intervals \cup {id}
    /\ ScheduleNextTechnique(config, 0, ZeroStats, intervals \cup {id}, timeouts, id)
    /\ thrown' = ThrownByAnnouncement
    /\ UNCHANGED <<selectionStrategy, callVars, managerVars>>
    /\ completeCalls' = 0
    /\ ticksSinceStart' = 0
    /\ UNCHANGED now

Rejected(error) ==
    /\ thrown' = error
    /\ UNCHANGED <<strategyVars, callVars, managerVars>>
    /\ completeCalls' = 0
    /\ UNCHANGED <<engineVars, intervals, timeouts, store, now, ticksSinceStart>>

-----------------------------------------------------------------------------
(* Public operations *)

StartSession(config) ==
    IF AlreadyActive
    THEN Rejected(SESSION_ALREADY_ACTIVE)
    ELSE \E ok \in BOOLEAN : StartBody(config, currentFightList, ok)

\* a lookup of the fight list that takes its unselected techniques too
RECURSIVE ResolveUnfiltered(_, _)
ResolveUnfiltered(flTechniques, techniques) ==
    IF flTechniques = <<>> THEN <<>>
    ELSE LET flTechnique == Head(flTechniques)
             found == LET Same(t) == t.name = flTechnique.techniqueId
                      IN SelectSeq(techniques, Same)
             rest == ResolveUnfiltered(Tail(flTechniques), techniques)
         IN IF found # <<>>
            THEN <<[found[1] EXCEPT !.weight = flTechnique.priority]>> \o rest
            ELSE rest

\* fightList.techniques.filter(selected).map(config lookup, weight := priority)
\* .filter(not null)
RECURSIVE ResolveFightList(_, _)
ResolveFightList(flTechniques, techniques) ==
    IF flTechniques = <<>> THEN <<>>
    ELSE LET flTechnique == Head(flTechniques)
             found == LET Same(t) == t.name = flTechnique.techniqueId
                      IN SelectSeq(techniques, Same)
             rest == ResolveFightList(Tail(flTechniques), techniques)
         IN IF flTechnique.selected /\ found # <<>>
            THEN <<[found[1] EXCEPT !.weight = flTechnique.priority]>> \o rest
            ELSE rest

StartSessionWithFightList(config, fightList) ==
    IF AlreadyActive
    THEN Rejected(SESSION_ALREADY_ACTIVE)
    ELSE IF \A i \in 1..Len(fightList.techniques) : ~fightList.techniques[i].selected
    THEN Rejected(SELECT_AT_LEAST_ONE)
    ELSE \E ok \in BOOLEAN :
            StartBody([config EXCEPT !.techniques =
                          ResolveFightList(fightList.techniques, config.techniques)],
                      fightList, ok)

PauseSession ==
    /\ IF ~CanPause
       THEN UNCHANGED <<engineVars, intervals, timeouts, ticksSinceStart>>
       ELSE /\ isPaused' = TRUE
            /\ intervals' = IntervalsAfterStop
            /\ sessionTimer' = 0
            /\ timeouts' = TimeoutsAfterStop
            /\ techniqueTimer' = 0
            /\ ticksSinceStart' = -1
            /\ UNCHANGED <<isActive, remainingTime, sessionDuration, currentTechnique,
                           techniquesUsed, currentFightList, sessionStats,
                           consecutiveAudioFailures>>
    /\ thrown' = "none"
    /\ UNCHANGED <<strategyVars, callVars, managerVars>>
    /\ completeCalls' = 0
    /\ UNCHANGED <<store, now>>

ResumeSession ==
    /\ IF ~CanResume
       THEN UNCHANGED <<engineVars, intervals, timeouts, ticksSinceStart>>
       ELSE LET id == FreshId(intervals, timeouts, techniqueTimer) IN
            /\ HasFreeId(intervals, timeouts, techniqueTimer)
            /\ isPaused' = FALSE
            /\ sessionTimer' = id
            /\ intervals' = intervals \cup {id}
            /\ ticksSinceStart' = -1
            /\ UNCHANGED <<isActive, techniqueTimer, remainingTime, sessionDuration,
                           currentTechnique, techniquesUsed, currentFightList,
                           sessionStats, consecutiveAudioFailures, timeouts>>
    /\ thrown' = "none"
    /\ UNCHANGED <<strategyVars, callVars, managerVars>>
    /\ completeCalls' = 0
    /\ UNCHANGED <<store, now>>

\* a stopSession that forgets the technique on display
TechniqueKept == currentTechnique

\* stopSession: this.currentTechnique = null
TechniqueAfterStop == NullTechnique

\* the assignments of stopSession, shared with completeSession
StopBody(ok) ==
    /\ isActive' = FALSE
    /\ isPaused' = FALSE
    /\ intervals' = IntervalsAfterStop
    /\ sessionTimer' = 0
    /\ timeouts' = TimeoutsAfterStop
    /\ techniqueTimer' = 0
    /\ currentTechnique' = TechniqueAfterStop
    /\ currentFightList' = NullFightList
    /\ store' = ClearedStore(ok)
    /\ UNCHANGED <<remainingTime, sessionDuration, techniquesUsed,
                   consecutiveAudioFailures, now>>

\* a stopSession that reports completion
StopSessionNotifying ==
    \E ok \in BOOLEAN :
        /\ StopBody(ok)
        /\ thrown' = "none"
        /\ UNCHANGED <<strategyVars, callVars, managerVars>>
        /\ completeCalls' = 1
        /\ ticksSinceStart' = -1
        /\ UNCHANGED sessionStats

StopSession ==
    \E ok \in BOOLEAN :
        /\ StopBody(ok)
        /\ thrown' = "none"
        /\ UNCHANGED <<strategyVars, callVars, managerVars>>
        /\ completeCalls' = 0
        /\ ticksSinceStart' = -1
        /\ UNCHANGED sessionStats

\* hasExistingSession: loadSessionState; localStorage.getItem succeeds (ok) or
\* throws and is swallowed
Restorable(ok) ==
    /\ ok
    /\ store # <<>>
    /\ now - store[1].timestamp < SESSION_RESTORE_TIME_LIMIT

LoadSessionState(ok, act, paus, rem, dur, used, stats, fl) ==
    IF Restorable(ok)
    THEN /\ isActive' = store[1].isActive
         /\ isPaused' = store[1].isPaused
         /\ remainingTime' = store[1].remainingTime
         /\ sessionDuration' = store[1].sessionDuration
         /\ techniquesUsed' = store[1].techniquesUsed
         /\ sessionStats' = store[1].sessionStats
         /\ currentFightList' = store[1].currentFightList
    ELSE /\ isActive' = act
         /\ isPaused' = paus
         /\ remainingTime' = rem
         /\ sessionDuration' = dur
         /\ techniquesUsed' = used
         /\ sessionStats' = stats
         /\ currentFightList' = fl

HasExistingSession ==
    \E ok \in BOOLEAN :
        /\ LoadSessionState(ok, isActive, isPaused, remainingTime, sessionDuration,
                            techniquesUsed, sessionStats, currentFightList)
        /\ ticksSinceStart' = IF Restorable(ok) THEN -1 ELSE ticksSinceStart
        /\ thrown' = "none"
        /\ UNCHANGED <<strategyVars, callVars, managerVars>>
        /\ completeCalls' = 0
        /\ UNCHANGED <<sessionTimer, techniqueTimer, currentTechnique,
                       consecutiveAudioFailures, intervals, timeouts, store, now>>

\* The page is loaded again: the window's timers are gone, a new
\* SessionManager is constructed, and KravMagaTrainerApp.init asks it for an
\* existing session; localStorage.getItem succeeds (ok) or throws.
PageLoad(ok) ==
    /\ LoadSessionState(ok, FALSE, FALSE, 0, 0, 0, ZeroStats, NullFightList)
    /\ sessionTimer' = 0
    /\ techniqueTimer' = 0
    /\ currentTechnique' = NullTechnique
    /\ consecutiveAudioFailures' = 0
    /\ intervals' = {}
    /\ timeouts' = {}
    /\ ticksSinceStart' = -1
    /\ selectionStrategy' = CreateStrategy(RANDOM)
    /\ currentIndex' = 0
    /\ thrown' = "none"
    /\ completeCalls' = 0
    /\ UNCHANGED <<store, now, callVars, managerVars>>

PageReload == \E ok \in BOOLEAN : PageLoad(ok)

-----------------------------------------------------------------------------
(* Timer callbacks *)

\* a completeSession that a failing removeItem aborts
CompleteSessionIfCleared(ok) ==
    IF ok
    THEN /\ sessionStats' = [sessionStats EXCEPT
                                 !.sessionDuration = sessionDuration - remainingTime]
         /\ StopBody(ok)
         /\ completeCalls' = 1
    ELSE /\ completeCalls' = 0
         /\ UNCHANGED <<engineVars, intervals, timeouts, store, now>>

\* completeSession
CompleteSession(ok) ==
    /\ sessionStats' = [sessionStats EXCEPT
                            !.sessionDuration = sessionDuration - remainingTime]
    /\ StopBody(ok)
    /\ completeCalls' = 1

\* the callback startSessionTimer gives to setInterval, fired for handle id
SessionTimerTick(id) ==
    /\ id \in intervals
    /\ IF TimeLeft
        THEN /\ remainingTime' = remainingTime - 1
             /\ IF (remainingTime - 1) % SESSION_SAVE_INTERVAL = 0
                THEN \E ok \in BOOLEAN :
                        store' = SavedStore(ok, isActive, isPaused, remainingTime - 1,
                                            sessionDuration, techniquesUsed,
                                            sessionStats, currentFightList)
                ELSE UNCHANGED store
             /\ completeCalls' = 0
             /\ UNCHANGED <<isActive, isPaused, sessionTimer, techniqueTimer,
                            sessionDuration, currentTechnique, techniquesUsed,
                            currentFightList, sessionStats,
                            consecutiveAudioFailures, intervals, timeouts, now>>
        ELSE \E ok \in BOOLEAN : CompleteSession(ok)
    /\ thrown' = "none"
    /\ UNCHANGED <<strategyVars, callVars, managerVars>>
    /\ ticksSinceStart' = IF ticksSinceStart >= 0 THEN ticksSinceStart + 1 ELSE -1

\* the callback announceTechnique gives to setTimeout, fired for the pending
\* timeout t
TechniqueTimerFire(t) ==
    /\ t \in timeouts
    /\ techniquesUsed < MaxTechniquesUsed
    /\ IF ~isActive \/ isPaused
       THEN /\ currentTechnique' = NullTechnique
            /\ timeouts' = timeouts \ {t}
            /\ UNCHANGED <<techniqueTimer, techniquesUsed, sessionStats, currentIndex>>
       ELSE ScheduleNextTechnique(t.config, techniquesUsed, sessionStats,
                                  intervals, timeouts \ {t}, sessionTimer)
    /\ thrown' = ThrownByAnnouncement
    /\ UNCHANGED <<selectionStrategy, callVars, managerVars>>
    /\ completeCalls' = 0
    /\ UNCHANGED <<isActive, isPaused, sessionTimer, remainingTime, sessionDuration,
                   currentFightList, consecutiveAudioFailures, intervals, store,
                   now, ticksSinceStart>>

\* wall-clock time goes by
TimePasses ==
    /\ now + ClockStep <= MaxClockSteps * ClockStep
    /\ now' = now + ClockStep
    /\ thrown' = "none"
    /\ UNCHANGED <<strategyVars, callVars, managerVars>>
    /\ completeCalls' = 0
    /\ UNCHANGED <<engineVars, intervals, timeouts, store, ticksSinceStart, appVars>>

-----------------------------------------------------------------------------
(* Selection strategies *)

\* setSelectionStrategy(strategyType): a new strategy object replaces the old
\* one; nothing has been asked of the new object yet
SetSelectionStrategy(strategyType) ==
    /\ selectionStrategy' = CreateStrategy(strategyType)
    /\ currentIndex' = 0
    /\ pool' = <<>>
    /\ draw' = 0
    /\ result' = NullTechnique
    /\ window' = <<>>
    /\ poolChanged' = FALSE
    /\ thrown' = "none"
    /\ completeCalls' = 0
    /\ UNCHANGED <<engineVars, intervals, timeouts, store, now, ticksSinceStart,
                   managerVars>>

\* a failing call that rewinds the cursor
CursorRewound(index) == 0

\* the cursor after selectTechnique threw on an empty pool: the throw comes
\* before the cursor is read
CursorAfterThrow(index) == index

\* the latest n elements of s
LastOf(s, n) == IF Len(s) <= n THEN s ELSE SubSeq(s, Len(s) - n + 1, Len(s))

\* selectTechnique(techniques) called on the strategy object, Math.random()
\* returning k / RandomGrain
SelectTechniqueCall(techniques, k) ==
    /\ pool' = techniques
    /\ draw' = k
    /\ poolChanged' = (poolChanged \/ (window # <<>> /\ techniques # pool))
    /\ IF techniques = <<>>
       THEN /\ thrown' = NO_TECHNIQUES_AVAILABLE
            /\ result' = NullTechnique
            /\ window' = <<>>
            /\ currentIndex' = CursorAfterThrow(currentIndex)
       ELSE LET call == SelectTechnique(selectionStrategy, currentIndex, techniques, k)
            IN /\ thrown' = "none"
               /\ result' = call.technique
               /\ currentIndex' = call.currentIndex
               /\ window' = IF techniques = pool
                            THEN LastOf(Append(window, call.technique), Len(techniques))
                            ELSE <<call.technique>>
    /\ completeCalls' = 0
    /\ UNCHANGED <<engineVars, intervals, timeouts, store, now, ticksSinceStart,
                   selectionStrategy, managerVars>>

-----------------------------------------------------------------------------
(* FightListManager: a fight list is followed by its id and its name; an id   *)
(* of 0 or a name "" stands for a missing field.  The calls of the storage    *)
(* service succeed (ok) or fail.                                              *)

FList(id, name) == [id |-> id, name |-> name, techniques |-> <<>>]

DEFAULT_NAME == "My Techniques"

\* what getAllFightLists finds in the store when the page is loaded
StoredFightLists == { <<>>, <<FList(100, "Basics")>> }

\* the names createFightList and updateFightList are called with
ListNames == {"Basics", "Basics ", "Sparring", ""}

\* name.toLowerCase() for the names above
ToLowerCase(name) ==
    IF name = "Basics" THEN "basics"
    ELSE IF name = "Basics " THEN "basics "
    ELSE IF name = "Sparring" THEN "sparring"
    ELSE IF name = DEFAULT_NAME THEN "my techniques"
    ELSE IF name = "Kicks" THEN "kicks"
    ELSE name

\* name.trim() for the names above
Trim(name) == IF name = "Basics " THEN "Basics" ELSE name

\* the elements of the arrays given to importFightLists: three lists, one
\* without an id and one without a name
ImportEntries ==
    {FList(101, "Basics"), FList(102, "Sparring"), FList(104, "basics"),
     FList(0, "Kicks"), FList(103, "")}

\* the argument of importFightLists as JSON.parse sees it: no JSON, a value
\* that is no array, or an array of at most MaxImportLen elements
ImportData ==
    { [kind |-> k, lists |-> <<>>] : k \in {"notJson", "notArray"} }
    \cup { [kind |-> "array", lists |-> l] :
               l \in UNION { [1..n -> ImportEntries] : n \in 0..MaxImportLen } }

\* the ids deleteFightList is called with
ListIds == (1..MaxGeneratedIds) \cup {100, 101, 102, 104}

\* validateFightListName(name).isValid for the names above
ValidName(name) ==
    /\ Trim(name) # ""
    /\ \A i \in 1..Len(fightLists) :
          ToLowerCase(fightLists[i].name) # ToLowerCase(name)

\* a call of the manager that throws before it changes anything
Refused(error) ==
    /\ thrown' = error
    /\ UNCHANGED managerVars

\* the list without its element at index
Spliced(lists, index) ==
    [i \in 1..(Len(lists) - 1) |-> IF i < index THEN lists[i] ELSE lists[i + 1]]

\* what no operation of the manager touches
ManagerFrame ==
    /\ completeCalls' = 0
    /\ UNCHANGED <<engineVars, intervals, timeouts, store, now, ticksSinceStart,
                   strategyVars, callVars>>

\* init() of a constructed manager: stored is what loadFightLists finds,
\* current what loadCurrentFightList finds; ok tells whether the saves of
\* createDefaultFightList succeed
FightListInit(stored, current, ok) ==
    /\ ~isInitialized
    /\ fightLists = <<>>
    /\ current \in {0} \cup {stored[i].id : i \in 1..Len(stored)}
    /\ IF stored = <<>>
       THEN /\ fightLists' = <<FList(generatedIds + 1, DEFAULT_NAME)>>
            /\ generatedIds' = generatedIds + 1
            /\ currentFightListId' = generatedIds + 1
            /\ isInitialized' = ok
            /\ thrown' = IF ok THEN "none" ELSE FAILED_TO_INITIALIZE
       ELSE /\ fightLists' = stored
            /\ currentFightListId' = current
            /\ isInitialized' = TRUE
            /\ thrown' = "none"
            /\ UNCHANGED generatedIds
    /\ ManagerFrame

\* createFightList(name); ok tells whether storageService.saveFightList succeeds
CreateFightList(name, ok) ==
    /\ generatedIds < MaxGeneratedIds
    /\ IF ~isInitialized THEN Refused(NOT_INITIALIZED)
       ELSE IF ~ValidName(name) THEN Refused(FIGHT_LIST_NAME_INVALID)
       ELSE IF Len(fightLists) >= MAX_FIGHT_LISTS THEN Refused(FIGHT_LIST_MAX_REACHED)
       ELSE /\ generatedIds' = generatedIds + 1
            /\ fightLists' = IF ok THEN Append(fightLists,
                                                FList(generatedIds + 1, Trim(name)))
                              ELSE fightLists
            /\ thrown' = IF ok THEN "none" ELSE FAILED_TO_SAVE
            /\ UNCHANGED <<currentFightListId, isInitialized>>
    /\ ManagerFrame

\* updateFightList(id, {name}); ok tells whether storageService.saveFightList
\* succeeds.  The revert after a failed save assigns the element to itself,
\* so the update stays in memory.
UpdateFightList(id, name, ok) ==
    /\ IF ~isInitialized THEN Refused(NOT_INITIALIZED)
       ELSE IF \A i \in 1..Len(fightLists) : fightLists[i].id # id
       THEN Refused(FIGHT_LIST_NOT_FOUND)
       ELSE IF ~ValidName(name) THEN Refused(FIGHT_LIST_NAME_INVALID)
       ELSE LET fightListIndex ==
                    CHOOSE i \in 1..Len(fightLists) :
                        /\ fightLists[i].id = id
                        /\ \A j \in 1..(i - 1) : fightLists[j].id # id
            IN /\ fightLists' = [fightLists EXCEPT ![fightListIndex].name = name]
               /\ thrown' = IF ok THEN "none" ELSE FAILED_TO_SAVE
               /\ UNCHANGED <<currentFightListId, isInitialized, generatedIds>>
    /\ ManagerFrame

\* deleteFightList: this.fightLists.length <= 1
LastListLeft == Len(fightLists) <= 1

\* deleteFightList(id); ok tells whether saveCurrentFightList succeeds
DeleteFightList(id, ok) ==
    /\ IF ~isInitialized THEN Refused(NOT_INITIALIZED)
       ELSE IF LastListLeft THEN Refused(CANNOT_DELETE_LAST_FIGHT_LIST)
       ELSE IF \A i \in 1..Len(fightLists) : fightLists[i].id # id
       THEN Refused(FIGHT_LIST_NOT_FOUND)
       ELSE LET fightListIndex ==
                    CHOOSE i \in 1..Len(fightLists) :
                        /\ fightLists[i].id = id
                        /\ \A j \in 1..(i - 1) : fightLists[j].id # id
                rest == Spliced(fightLists, fightListIndex)
            IN /\ fightLists' = rest
               /\ IF currentFightListId = id
                  THEN /\ currentFightListId' = IF rest # <<>> THEN rest[1].id ELSE 0
                       /\ thrown' = IF ok THEN "none" ELSE FAILED_TO_SAVE
                  ELSE /\ UNCHANGED currentFightListId
                       /\ thrown' = "none"
               /\ UNCHANGED <<isInitialized, generatedIds>>
    /\ ManagerFrame

\* importFightLists(data): an array whose elements all have an id and a name
\* that validateFightListName accepts replaces the lists; saveFightLists
\* follows, and its failure is caught and changes the returned value only
ImportFightLists(data) ==
    /\ IF ~isInitialized THEN Refused(NOT_INITIALIZED)
       ELSE /\ thrown' = "none"
            /\ IF /\ data.kind = "array"
                  /\ \A i \in 1..Len(data.lists) :
                        /\ data.lists[i].id # 0
                        /\ data.lists[i].name # ""
                        /\ ValidName(data.lists[i].name)
               THEN fightLists' = data.lists
               ELSE UNCHANGED fightLists
            /\ UNCHANGED <<currentFightListId, isInitialized, generatedIds>>
    /\ ManagerFrame

\* a FightListTechnique as addTechniqueToFightList makes it
FightListTechnique(id, techniqueId, priority) ==
    [id |-> id, techniqueId |-> techniqueId, priority |-> priority, selected |-> TRUE]

\* the value undefined where a FightListTechnique is expected
UndefinedEntry == [id |-> 0, techniqueId |-> "undefined", priority |-> 0, selected |-> FALSE]

\* Math.max(1, Math.min(5, priority))
ClampPriority(priority) ==
    IF priority < 1 THEN 1 ELSE IF priority > 5 THEN 5 ELSE priority

\* the priorities addTechniqueToFightList is called with
Priorities == {3, 9}

\* this.fightLists.findIndex(fl => fl.id === id), from 1; 0 when there is none
ListIndex(id) ==
    IF \A i \in 1..Len(fightLists) : fightLists[i].id # id THEN 0
    ELSE CHOOSE i \in 1..Len(fightLists) :
            /\ fightLists[i].id = id
            /\ \A j \in 1..(i - 1) : fightLists[j].id # id

\* techniques.findIndex(ft => ft[field] === value), from 1: 0 when there is
\* none, -1 when the callback reads a property of an undefined element first
FindIndex(techniques, field, value) ==
    LET hits == {i \in 1..Len(techniques) :
                    techniques[i] # UndefinedEntry /\ techniques[i][field] = value}
        holes == {i \in 1..Len(techniques) : techniques[i] = UndefinedEntry}
        first == CHOOSE i \in hits : \A j \in hits : i <= j
    IN IF hits # {} /\ \A h \in holes : first < h THEN first
       ELSE IF holes # {} THEN -1
       ELSE 0

\* techniques.splice(index, 0, element)
Inserted(techniques, index, element) ==
    [i \in 1..(Len(techniques) + 1) |->
        IF i < index THEN techniques[i]
        ELSE IF i = index THEN element
        ELSE techniques[i - 1]]

\* the catch of removeTechniqueFromFightList:
\* splice(techniqueIndex, 0, fightList.techniques[techniqueIndex]) on the list
\* that has lost the technique; reading past the end gives undefined
Restored(rest, techniqueIndex) ==
    Inserted(rest, techniqueIndex,
             IF techniqueIndex <= Len(rest) THEN rest[techniqueIndex] ELSE UndefinedEntry)

\* addTechniqueToFightList(fightListId, technique, priority); ok tells whether
\* storageService.saveFightList succeeds
AddTechniqueToFightList(fightListId, technique, priority, ok) ==
    /\ generatedIds < MaxGeneratedIds
    /\ IF ~isInitialized THEN Refused(NOT_INITIALIZED)
       ELSE IF ListIndex(fightListId) = 0 THEN Refused(FIGHT_LIST_NOT_FOUND)
       ELSE LET index == ListIndex(fightListId)
                techniques == fightLists[index].techniques
                existing == FindIndex(techniques, "techniqueId", technique.name)
            IN IF Len(techniques) >= MAX_TECHNIQUES_PER_LIST
               THEN Refused(MAX_TECHNIQUES_PER_LIST_REACHED)
               ELSE IF existing = -1 THEN Refused(TYPE_ERROR)
               ELSE IF existing # 0 THEN Refused(TECHNIQUE_ALREADY_EXISTS)
               ELSE /\ generatedIds' = generatedIds + 1
                    /\ fightLists' =
                          IF ok
                          THEN [fightLists EXCEPT ![index].techniques =
                                   Append(@, FightListTechnique(generatedIds + 1,
                                                                technique.name,
                                                                ClampPriority(priority)))]
                          ELSE fightLists
                    /\ thrown' = IF ok THEN "none" ELSE FAILED_TO_SAVE
                    /\ UNCHANGED <<currentFightListId, isInitialized>>
    /\ ManagerFrame

\* removeTechniqueFromFightList(fightListId, techniqueId); ok tells whether
\* storageService.saveFightList succeeds
RemoveTechniqueFromFightList(fightListId, techniqueId, ok) ==
    /\ IF ~isInitialized THEN Refused(NOT_INITIALIZED)
       ELSE IF ListIndex(fightListId) = 0 THEN Refused(FIGHT_LIST_NOT_FOUND)
       ELSE LET index == ListIndex(fightListId)
                techniques == fightLists[index].techniques
                techniqueIndex == FindIndex(techniques, "id", techniqueId)
                rest == Spliced(techniques, techniqueIndex)
            IN IF techniqueIndex = -1 THEN Refused(TYPE_ERROR)
               ELSE IF techniqueIndex = 0 THEN Refused(TECHNIQUE_NOT_FOUND)
               ELSE /\ fightLists' =
                          [fightLists EXCEPT ![index].techniques =
                              IF ok THEN rest
                              ELSE Restored(rest, techniqueIndex)]
                    /\ thrown' = IF ok THEN "none" ELSE FAILED_TO_SAVE
                    /\ UNCHANGED <<currentFightListId, isInitialized, generatedIds>>
    /\ ManagerFrame

-----------------------------------------------------------------------------
(* ConfigManager: the technique objects of a session config handed out by    *)
(* getSessionConfig are those of the manager's own list, so a change of       *)
(* their selected flag is seen by the config a pending announcement captured  *)

\* technique.selected = selected on the technique called name
WithSelection(techniques, name, selected) ==
    [i \in 1..Len(techniques) |->
        IF techniques[i].name = name
        THEN [techniques[i] EXCEPT !.selected = selected]
        ELSE techniques[i]]

\* techniques.forEach(t => t.selected = false)
AllDeselected(techniques) ==
    [i \in 1..Len(techniques) |-> [techniques[i] EXCEPT !.selected = FALSE]]

\* updateTechniqueSelection(name, selected) during a session started by startSession
UpdateTechniqueSelection(name, selected) ==
    /\ timeouts' = {[t EXCEPT !.config.techniques = WithSelection(@, name, selected)] :
                        t \in timeouts}
    /\ thrown' = "none"
    /\ UNCHANGED <<strategyVars, callVars, managerVars>>
    /\ completeCalls' = 0
    /\ UNCHANGED <<engineVars, intervals, store, now, ticksSinceStart>>

\* deselectAllTechniques during a session started by startSession
DeselectAllTechniques ==
    /\ timeouts' = {[t EXCEPT !.config.techniques = AllDeselected(@)] : t \in timeouts}
    /\ thrown' = "none"
    /\ UNCHANGED <<strategyVars, callVars, managerVars>>
    /\ completeCalls' = 0
    /\ UNCHANGED <<engineVars, intervals, store, now, ticksSinceStart>>

-----------------------------------------------------------------------------
(* KravMagaTrainerApp: the handlers of the buttons and the announcement loop *)

\* a step in which the application's loops do nothing
NoLoopStep ==
    /\ played' = NullTechnique
    /\ UNCHANGED <<loopsWaiting, loopsPlaying, failStreak, lastPlayedAt>>

\* isReadyToStart
IsReadyToStart(config) == SelectedOf(config.techniques) # <<>>

\* isReadyToStartWithFightList
IsReadyToStartWithFightList(fightList) == SelectedOf(fightList.techniques) # <<>>

\* the test announceNextTechnique makes before its next setTimeout:
\* isActive && !isPaused
SessionIsRunning(act, paus) == act /\ ~paus

\* announceNextTechnique from its entry to its await of the playback, or to its
\* end if nothing is played; the session being (act, paus, cur) with used
\* techniques counted, the loops (waiting, playing) and the latest playback
\* that of the technique counted as number last, when it is entered
AnnounceNextTechnique(act, paus, cur, waiting, playing, used, last) ==
    IF ~act
    THEN /\ loopsWaiting' = waiting
         /\ loopsPlaying' = playing
         /\ played' = NullTechnique
         /\ lastPlayedAt' = last
    ELSE IF cur # NullTechnique
    THEN /\ loopsWaiting' = waiting
         /\ loopsPlaying' = playing + 1
         /\ played' = cur
         /\ lastPlayedAt' = used
    ELSE /\ loopsWaiting' = IF SessionIsRunning(act, paus) THEN waiting + 1 ELSE waiting
         /\ loopsPlaying' = playing
         /\ played' = NullTechnique
         /\ lastPlayedAt' = last

\* handleStartSession with the fight list manager holding fightList, or no
\* fight list and the user confirming the run over all techniques
HandleStartSession(config, fightList) ==
    /\ loopsWaiting + loopsPlaying < MaxLoops
    /\ IF fightList # NullFightList
       THEN IF IsReadyToStartWithFightList(fightList)
            THEN StartSessionWithFightList(config, fightList)
            ELSE Rejected("none")
       ELSE IF IsReadyToStart(config)
            THEN StartSession(config)
            ELSE Rejected("none")
    /\ IF isActive' /\ ~isActive
       THEN /\ AnnounceNextTechnique(isActive', isPaused', currentTechnique',
                                     loopsWaiting, loopsPlaying, techniquesUsed', 0)
            /\ failStreak' = 0
       ELSE NoLoopStep

\* handlePauseSession: the one button that pauses and resumes
HandlePauseSession ==
    /\ IF isPaused THEN ResumeSession ELSE PauseSession
    /\ NoLoopStep

\* handleStopSession
HandleStopSession ==
    /\ StopSession
    /\ NoLoopStep

\* a pending setTimeout(announceNextTechnique) fires
LoopWakeUp ==
    /\ loopsWaiting > 0
    /\ AnnounceNextTechnique(isActive, isPaused, currentTechnique,
                             loopsWaiting - 1, loopsPlaying, techniquesUsed,
                             lastPlayedAt)
    /\ thrown' = "none"
    /\ UNCHANGED <<strategyVars, callVars, managerVars>>
    /\ completeCalls' = 0
    /\ UNCHANGED <<engineVars, intervals, timeouts, store, now, ticksSinceStart,
                   failStreak>>

\* incrementAudioFailureCount, were it called
CountedFailure == consecutiveAudioFailures + 1

\* what the loop does to the failure counter after a failed playback: the call
\* of incrementAudioFailureCount is commented out
AfterFailure == consecutiveAudioFailures

\* the playback a suspended announceNextTechnique awaits settles, and the run
\* continues to its end
AudioSettles(success) ==
    /\ loopsPlaying > 0
    /\ loopsPlaying' = loopsPlaying - 1
    /\ played' = NullTechnique
    /\ UNCHANGED lastPlayedAt
    /\ thrown' = "none"
    /\ UNCHANGED <<strategyVars, callVars, managerVars>>
    /\ completeCalls' = 0
    /\ failStreak' = IF success THEN 0
                     ELSE IF failStreak < MAX_CONSECUTIVE_AUDIO_FAILURES
                          THEN failStreak + 1 ELSE failStreak
    /\ IF ~success /\ AfterFailure >= MAX_CONSECUTIVE_AUDIO_FAILURES
       THEN \* shouldStopSessionDueToAudioFailures: handleStopSession and return
            \E ok \in BOOLEAN :
                /\ StopBody(ok)
                /\ ticksSinceStart' = -1
                /\ UNCHANGED <<sessionStats, loopsWaiting>>
       ELSE /\ consecutiveAudioFailures' = IF success THEN 0 ELSE AfterFailure
            /\ loopsWaiting' = IF SessionIsRunning(isActive, isPaused)
                                THEN loopsWaiting + 1 ELSE loopsWaiting
            /\ UNCHANGED <<isActive, isPaused, sessionTimer, techniqueTimer,
                           remainingTime, sessionDuration, currentTechnique,
                           techniquesUsed, currentFightList, sessionStats,
                           intervals, timeouts, store, now, ticksSinceStart>>

\* The page is loaded again and KravMagaTrainerApp.init runs: the loops of the
\* old page are gone; handleSessionRestoration starts a loop for a restored
\* session that is active and not paused.
AppInit ==
    /\ PageReload
    /\ AnnounceNextTechnique(isActive' /\ ~isPaused', isPaused', NullTechnique, 0, 0,
                             techniquesUsed', 0)
    /\ failStreak' = 0

-----------------------------------------------------------------------------

Next ==
    \/ (\E config \in Configs : StartSession(config)) /\ NoLoopStep
    \/ (\E config \in Configs, fightList \in FightLists :
          StartSessionWithFightList(config, fightList)) /\ NoLoopStep
    \/ PauseSession /\ NoLoopStep
    \/ ResumeSession /\ NoLoopStep
    \/ StopSession /\ NoLoopStep
    \/ HasExistingSession /\ NoLoopStep
    \/ PageReload /\ NoLoopStep
    \/ (\E id \in TimerIds : SessionTimerTick(id)) /\ NoLoopStep
    \/ (\E t \in timeouts : TechniqueTimerFire(t)) /\ NoLoopStep

\* The engine on its own.  No time passes between a save and a load, so a
\* load finds the snapshot within the restore window; a load that restores
\* nothing is still present as the load whose getItem throws.
Spec == Init /\ [][Next]_vars

\* The engine with the wall clock advancing between its operations
NextWithClock == Next \/ TimePasses

SpecWithClock == Init /\ [][NextWithClock]_vars

\* The engine run on techniques of a category that the statistics are not
\* initialised for
NextKnife ==
    \/ (\E config \in KnifeConfigs : StartSession(config)) /\ NoLoopStep
    \/ PauseSession /\ NoLoopStep
    \/ ResumeSession /\ NoLoopStep
    \/ StopSession /\ NoLoopStep
    \/ PageReload /\ NoLoopStep
    \/ (\E id \in TimerIds : SessionTimerTick(id)) /\ NoLoopStep
    \/ (\E t \in timeouts : TechniqueTimerFire(t)) /\ NoLoopStep

SpecKnife == Init /\ [][NextKnife]_vars

\* The engine with the user changing the selection of techniques while a
\* session started by startSession runs; the browser keeps firing the countdown
CountdownFires == (\E id \in TimerIds : SessionTimerTick(id)) /\ NoLoopStep

NextDeselect ==
    \/ (\E config \in Configs : StartSession(config)) /\ NoLoopStep
    \/ (\E name \in {TJab.name, TCross.name}, selected \in BOOLEAN :
          UpdateTechniqueSelection(name, selected)) /\ NoLoopStep
    \/ DeselectAllTechniques /\ NoLoopStep
    \/ StopSession /\ NoLoopStep
    \/ CountdownFires
    \/ (\E t \in timeouts : TechniqueTimerFire(t)) /\ NoLoopStep

SpecDeselect == Init /\ [][NextDeselect]_vars /\ WF_vars(CountdownFires)

\* The engine with the strategy swapped at any time
NextStrategy ==
    \/ (\E config \in Configs : StartSession(config)) /\ NoLoopStep
    \/ (\E strategyType \in StrategyTypes : SetSelectionStrategy(strategyType)) /\ NoLoopStep
    \/ PauseSession /\ NoLoopStep
    \/ ResumeSession /\ NoLoopStep
    \/ StopSession /\ NoLoopStep
    \/ (\E id \in TimerIds : SessionTimerTick(id)) /\ NoLoopStep
    \/ (\E t \in timeouts : TechniqueTimerFire(t)) /\ NoLoopStep

SpecStrategy == Init /\ [][NextStrategy]_vars

\* A strategy object on its own: it is created, and asked for a technique of
\* any pool with any draw of Math.random()
NextSelect ==
    \/ (\E strategyType \in StrategyTypes : SetSelectionStrategy(strategyType)) /\ NoLoopStep
    \/ (\E techniques \in StrategyPools, k \in 0..(RandomGrain - 1) :
          SelectTechniqueCall(techniques, k)) /\ NoLoopStep

SpecSelect == Init /\ [][NextSelect]_vars

\* Sessions started with a fight list, followed on their own
NextFightListSession ==
    \/ (\E config \in Configs, fightList \in SessionFightLists :
          StartSessionWithFightList(config, fightList)) /\ NoLoopStep
    \/ PauseSession /\ NoLoopStep
    \/ ResumeSession /\ NoLoopStep
    \/ StopSession /\ NoLoopStep
    \/ (\E id \in TimerIds : SessionTimerTick(id)) /\ NoLoopStep
    \/ (\E t \in timeouts : TechniqueTimerFire(t)) /\ NoLoopStep

SpecFightListSession == Init /\ [][NextFightListSession]_vars

\* The FightListManager with techniques added to and removed from its lists
NextFightListTechniques ==
    \/ (\E stored \in StoredFightLists, current \in ListIds \cup {0}, ok \in BOOLEAN :
          FightListInit(stored, current, ok)) /\ NoLoopStep
    \/ (\E name \in {"Sparring"}, ok \in BOOLEAN : CreateFightList(name, ok)) /\ NoLoopStep
    \/ (\E id \in ListIds, name \in {"Sparring", "Kicks"}, ok \in BOOLEAN :
          UpdateFightList(id, name, ok)) /\ NoLoopStep
    \/ (\E id \in ListIds, technique \in {TJab, TCross, TElbow},
            priority \in Priorities, ok \in BOOLEAN :
          AddTechniqueToFightList(id, technique, priority, ok)) /\ NoLoopStep
    \/ (\E id \in ListIds, techniqueId \in 1..MaxGeneratedIds, ok \in BOOLEAN :
          RemoveTechniqueFromFightList(id, techniqueId, ok)) /\ NoLoopStep

SpecFightListTechniques == Init /\ [][NextFightListTechniques]_vars

\* The FightListManager from its construction on
NextFightLists ==
    \/ (\E stored \in StoredFightLists, current \in ListIds \cup {0}, ok \in BOOLEAN :
          FightListInit(stored, current, ok)) /\ NoLoopStep
    \/ (\E name \in ListNames, ok \in BOOLEAN : CreateFightList(name, ok)) /\ NoLoopStep
    \/ (\E id \in ListIds, name \in ListNames, ok \in BOOLEAN :
          UpdateFightList(id, name, ok)) /\ NoLoopStep
    \/ (\E id \in ListIds, ok \in BOOLEAN : DeleteFightList(id, ok)) /\ NoLoopStep
    \/ (\E data \in ImportData : ImportFightLists(data)) /\ NoLoopStep

SpecFightLists == Init /\ [][NextFightLists]_vars

\* The application: the engine driven by the handlers of KravMagaTrainerApp,
\* with its announcement loops and the playbacks they await.  Each session is
\* followed through its first MaxAppTicks seconds.
NextApp ==
    \/ \E config \in Configs, fightList \in FightLists \cup {NullFightList} :
          HandleStartSession(config, fightList)
    \/ HandlePauseSession
    \/ HandleStopSession
    \/ AppInit
    \/ /\ sessionDuration - remainingTime < MaxAppTicks
       /\ \E id \in TimerIds : SessionTimerTick(id)
       /\ NoLoopStep
    \/ (\E t \in timeouts : TechniqueTimerFire(t)) /\ NoLoopStep
    \/ LoopWakeUp
    \/ \E success \in BOOLEAN : AudioSettles(success)

SpecApp == Init /\ [][NextApp]_vars

TypeOK ==
    /\ isActive \in BOOLEAN /\ isPaused \in BOOLEAN
    /\ sessionTimer \in 0..MaxTimers /\ techniqueTimer \in 0..MaxTimers
    /\ remainingTime \in Nat /\ sessionDuration \in Nat
    /\ intervals \subseteq TimerIds
    /\ Len(store) <= 1
    /\ selectionStrategy \in {RANDOM, ROUND_ROBIN, PRIORITY_BASED}
    /\ currentIndex \in Nat
    /\ pool \in StrategyPools
    /\ draw \in 0..(RandomGrain - 1)
    /\ Len(window) <= MaxPoolLen
    /\ poolChanged \in BOOLEAN
    /\ isInitialized \in BOOLEAN
    /\ generatedIds \in 0..MaxGeneratedIds
    /\ currentFightListId \in ListIds \cup {0}
    /\ lastPlayedAt \in 0..MaxTechniquesUsed

-----------------------------------------------------------------------------
(* Properties *)

\* steps of the operations, for use in action formulas
StartStep == \E config \in Configs : StartSession(config)
StartWithFightListStep ==
    \E config \in Configs, fightList \in FightLists :
        StartSessionWithFightList(config, fightList)
TickStep == \E id \in TimerIds : SessionTimerTick(id)
WakeUpStep == \E t \in timeouts : TechniqueTimerFire(t)

Idle ==
    /\ ~isActive /\ ~isPaused
    /\ intervals = {} /\ timeouts = {}
    /\ sessionTimer = 0 /\ techniqueTimer = 0
    /\ currentTechnique = NullTechnique
    /\ currentFightList = NullFightList

\* C1: startSession and startSessionWithFightList called while a session is
\* active (running or paused) throw 'Session already active' and change no
\* field of the session state, no timer and not the stored snapshot.
C1_StartWhileActiveRejected ==
    [][ (isActive /\ (StartStep \/ StartWithFightListStep))
          => /\ thrown' = SESSION_ALREADY_ACTIVE
             /\ UNCHANGED <<engineVars, intervals, timeouts, store>> ]_vars

\* a start was rejected on a paused session that has announced a technique
\* and has a snapshot in the store
C1_Witness ==
    /\ thrown = SESSION_ALREADY_ACTIVE
    /\ isActive /\ isPaused
    /\ techniquesUsed > 0
    /\ store # <<>>

\* C2 (as claimed): a start from Idle whose pool has no selected technique, or
\* whose fight list resolves to no technique of the config, throws and leaves
\* the engine idle: not active, no timer armed, no snapshot written.
C2_EmptyPoolStartRefused ==
    [][ /\ \A config \in Configs :
             (~isActive /\ SelectedOf(config.techniques) = <<>> /\ StartSession(config))
               => /\ thrown' # "none"
                  /\ ~isActive'
                  /\ intervals' = {} /\ timeouts' = {}
                  /\ store' = store
        /\ \A config \in Configs, fightList \in FightLists :
             (/\ ~isActive
              /\ ResolveFightList(fightList.techniques, config.techniques) = <<>>
              /\ StartSessionWithFightList(config, fightList))
               => /\ thrown' # "none"
                  /\ ~isActive'
                  /\ intervals' = {} /\ timeouts' = {}
                  /\ store' = store ]_vars

\* C3 (as claimed): after a successful startSession(config) from Idle the
\* session is active and not paused, remainingTime = sessionDuration =
\* duration * 60, the statistics are all zero, the failure counter is 0, a
\* snapshot of this state is in the store and the countdown is armed.
C3_StartLeavesZeroStatsAndSnapshot ==
    [][ \A config \in Configs :
          (~isActive /\ StartSession(config) /\ thrown' = "none")
            => /\ isActive' /\ ~isPaused'
               /\ remainingTime' = config.duration * 60
               /\ sessionDuration' = config.duration * 60
               /\ sessionStats'.totalTechniques = 0
               /\ \A key \in StatKeys :
                     sessionStats'.techniquesByCategory[key] \in {0, Absent}
               /\ sessionStats'.sessionDuration = 0
               /\ consecutiveAudioFailures' = 0
               /\ store' = << Snapshot(isActive', isPaused', remainingTime',
                                       sessionDuration', techniquesUsed',
                                       sessionStats', currentFightList', now') >>
               /\ sessionTimer' \in intervals' ]_vars

\* C3 (amended): after a successful startSession(config) from Idle the session
\* is active and not paused, remainingTime = sessionDuration = duration * 60,
\* the failure counter is 0 and the countdown is armed; the statistics are
\* those of a reset plus the first announcement, which startSession makes at
\* once when the pool has a selected technique (techniquesUsed = total = 1,
\* that technique current and counted in its category), and all zero
\* otherwise; the store holds the snapshot taken before that announcement
\* (zero counters) if the write succeeded and is unchanged if it threw.
C3_StartInitialisesSession ==
    [][ \A config \in Configs :
          (~isActive /\ StartSession(config) /\ thrown' = "none")
            => /\ isActive' /\ ~isPaused'
               /\ remainingTime' = config.duration * 60
               /\ sessionDuration' = config.duration * 60
               /\ consecutiveAudioFailures' = 0
               /\ sessionTimer' \in intervals'
               /\ sessionStats'.sessionDuration = 0
               /\ IF SelectedOf(config.techniques) = <<>>
                  THEN /\ techniquesUsed' = 0
                       /\ sessionStats' = ZeroStats
                       /\ currentTechnique' = NullTechnique
                  ELSE /\ techniquesUsed' = 1
                       /\ sessionStats'.totalTechniques = 1
                       /\ \E i \in 1..Len(config.techniques) :
                             /\ config.techniques[i].selected
                             /\ currentTechnique' = config.techniques[i]
                       /\ sessionStats' = UpdatedStats(ZeroStats, currentTechnique')
               /\ \/ store' = store
                  \/ store' = << Snapshot(TRUE, FALSE, config.duration * 60,
                                          config.duration * 60, 0, ZeroStats,
                                          currentFightList, now) >> ]_vars

\* a session was just started with a selected technique announced and its
\* snapshot written
C3_Witness ==
    /\ isActive /\ ~isPaused
    /\ ticksSinceStart = 0
    /\ remainingTime = sessionDuration
    /\ techniquesUsed = 1
    /\ currentTechnique # NullTechnique
    /\ store # <<>>
    /\ store[1].remainingTime = remainingTime
    /\ store[1].techniquesUsed = 0

\* C4: 0 <= remainingTime <= sessionDuration in every reachable state, and a
\* countdown tick on a running session with remainingTime > 0 decreases
\* remainingTime by exactly 1.
C4_RemainingTimeBounded ==
    /\ [](0 <= remainingTime /\ remainingTime <= sessionDuration)
    /\ [][ (TickStep /\ isActive /\ ~isPaused /\ remainingTime > 0)
             => remainingTime' = remainingTime - 1 ]_vars

\* the countdown has ticked down to the last second of a running session
C4_Witness ==
    /\ isActive /\ ~isPaused
    /\ sessionTimer \in intervals
    /\ remainingTime = 1
    /\ sessionDuration = 60

\* C5: the completion callback is invoked exactly once by the tick that finds
\* remainingTime = 0, which leaves the engine idle with no timer armed, so that
\* no later tick exists to change the state or call it again; no other
\* operation, stopSession included, invokes it.
C5_CompletesOnce ==
    [][ /\ (TickStep /\ remainingTime = 0) => completeCalls' = 1
        /\ completeCalls' # 0
             => /\ completeCalls' = 1
                /\ TickStep
                /\ isActive /\ remainingTime = 0
                /\ Idle'
                /\ remainingTime' = 0
        /\ StopSession => completeCalls' = 0 ]_vars

\* the session has just completed: callback invoked, engine idle
C5_Witness ==
    /\ completeCalls = 1
    /\ ~isActive
    /\ sessionStats.sessionDuration = 60
    /\ intervals = {}

\* C6 (as claimed): a session started with duration d and never paused or
\* stopped is completed (not active, callback invoked) once 60 * d countdown
\* ticks have run since its start, with at least one technique counted.
C6_CompletedAfter60dTicks ==
    (ticksSinceStart >= 0 /\ sessionDuration > 0 /\ ticksSinceStart = sessionDuration)
        => /\ ~isActive
           /\ completeCalls = 1
           /\ sessionStats.totalTechniques >= 1

\* C7: pauseSession, resumeSession, and any countdown tick or announcement
\* wake-up between them leave remainingTime, techniquesUsed and sessionStats
\* as they were.
C7_PauseResumePreserves ==
    [][ (PauseSession \/ ResumeSession \/ (isPaused /\ (TickStep \/ WakeUpStep)))
          => UNCHANGED <<remainingTime, techniquesUsed, sessionStats>> ]_vars

\* a session that ticked and announced was paused and resumed: the countdown
\* is armed again and the announcement timeout is not
C7_Witness ==
    /\ isActive /\ ~isPaused
    /\ ticksSinceStart = -1
    /\ sessionTimer \in intervals
    /\ techniqueTimer = 0 /\ timeouts = {}
    /\ 0 < remainingTime /\ remainingTime < sessionDuration
    /\ techniquesUsed = 2

C9_StopClearsEverything ==
    [][ StopSession
          => /\ thrown' = "none"
             /\ ~isActive' /\ ~isPaused'
             /\ intervals' = {} /\ timeouts' = {}
             /\ currentTechnique' = NullTechnique
             /\ currentFightList' = NullFightList
             /\ store' = <<>> ]_vars

\* C9 (amended): stopSession never throws and leaves the engine not active,
\* not paused, with no timer armed, currentTechnique and currentFightList
\* null; the snapshot is removed from the store unless removeItem throws, and
\* is then left as it was; a second call changes nothing in memory.
C9_StopReturnsToIdle ==
    [][ StopSession
          => /\ thrown' = "none"
             /\ Idle'
             /\ store' = <<>> \/ store' = store
             /\ Idle => UNCHANGED <<engineVars, intervals, timeouts>> ]_vars

\* stopped in the middle of a session: time was left, a technique had been
\* announced, and the snapshot is gone
C9_Witness ==
    /\ Idle
    /\ ticksSinceStart = -1
    /\ 0 < remainingTime /\ remainingTime < sessionDuration
    /\ techniquesUsed > 0
    /\ completeCalls = 0
    /\ store = <<>>

\* C10: isPaused implies isActive in every reachable state.
C10_PausedImpliesActive == isPaused => isActive

\* a paused session
C10_Witness == isPaused /\ isActive /\ remainingTime < sessionDuration

\* C11: whenever the session is not active (Idle, after a stop, after
\* completion) currentTechnique is null; currentTechnique takes a new non-null
\* value only in a step that selects and counts a technique on a running
\* session, and keeps it until the next selection or the end of the session.
C11_CurrentTechniqueOnlyWhileActive ==
    /\ [](~isActive => currentTechnique = NullTechnique)
    /\ [][ (currentTechnique' # currentTechnique /\ currentTechnique' # NullTechnique)
             => /\ StartStep \/ StartWithFightListStep \/ WakeUpStep
                /\ isActive' /\ ~isPaused'
                /\ sessionStats'.totalTechniques = techniquesUsed'
                /\ techniquesUsed' = IF WakeUpStep THEN techniquesUsed + 1 ELSE 1 ]_vars

\* a session that announced two techniques has completed and shows none
C11_Witness ==
    /\ ~isActive
    /\ completeCalls = 1
    /\ techniquesUsed = 2
    /\ sessionStats.totalTechniques = 2
    /\ currentTechnique = NullTechnique

\* steps of the application's loop, for use in action formulas
PlaybackFailed == AudioSettles(FALSE)
PlaybackSucceeded == AudioSettles(TRUE)
LoopStep == LoopWakeUp \/ PlaybackFailed \/ PlaybackSucceeded

\* C12 (as claimed): when a playback fails during an active session and is the
\* third failure in a row, the session is stopped by force: not active, not
\* paused, no timer armed, no snapshot in the store, failure counter 0.
C12_ThreeFailuresStopSession ==
    [][ (PlaybackFailed /\ isActive
           /\ failStreak' >= MAX_CONSECUTIVE_AUDIO_FAILURES)
          => /\ ~isActive' /\ ~isPaused'
             /\ intervals' = {} /\ timeouts' = {}
             /\ store' = <<>>
             /\ consecutiveAudioFailures' = 0 ]_vars

\* C13 (as claimed): after every playback attempt the failure counter equals
\* the number of attempts that failed in a row since the latest success or
\* session start: a failure adds 1, a success sets 0, a start sets 0.
C13_CounterCountsConsecutiveFailures ==
    [][ /\ PlaybackFailed
             => /\ consecutiveAudioFailures' = consecutiveAudioFailures + 1
                /\ consecutiveAudioFailures' = failStreak'
        /\ PlaybackSucceeded => consecutiveAudioFailures' = 0
        /\ (~isActive /\ isActive' /\ (StartStep \/ StartWithFightListStep))
             => consecutiveAudioFailures' = 0 ]_vars

\* C14: stopSession cancels the pending announcement timeout, and while the
\* session stays stopped no timer callback, loop wake-up, settling playback,
\* pause, resume or further stop changes techniquesUsed, sessionStats or
\* currentTechnique or triggers a playback.
C14_StopCancelsPendingAnnouncement ==
    [][ /\ StopSession => (~isActive' /\ timeouts' = {} /\ techniqueTimer' = 0)
        /\ (~isActive /\ (WakeUpStep \/ TickStep \/ LoopStep \/ StopSession
                             \/ PauseSession \/ ResumeSession))
             => /\ UNCHANGED <<techniquesUsed, sessionStats, currentTechnique>>
                /\ played' = NullTechnique ]_vars

\* stopped during the delay after an announcement: the engine's timeout is
\* gone, a wake-up of the application's loop is still to come
C14_Witness ==
    /\ ~isActive
    /\ techniquesUsed = 1
    /\ sessionStats.totalTechniques = 1
    /\ remainingTime > 0
    /\ timeouts = {}
    /\ loopsWaiting > 0
    /\ played = NullTechnique

\* C15 (as claimed): a page load that finds a snapshot of a running session
\* (isActive, not isPaused) younger than the restore limit restores the
\* session from it and resumes the countdown: the interval is armed again.
C15_RestoredSessionResumesCountdown ==
    [][ (/\ PageReload
         /\ store # <<>>
         /\ store[1].isActive /\ ~store[1].isPaused
         /\ now - store[1].timestamp < SESSION_RESTORE_TIME_LIMIT
         /\ isActive')
          => /\ ~isPaused'
             /\ remainingTime' = store[1].remainingTime
             /\ sessionTimer' # 0
             /\ sessionTimer' \in intervals' ]_vars

\* the session state a newly constructed SessionManager has
FreshEngine ==
    /\ ~isActive /\ ~isPaused
    /\ remainingTime = 0 /\ sessionDuration = 0
    /\ techniquesUsed = 0
    /\ sessionStats = ZeroStats
    /\ currentFightList = NullFightList
    /\ currentTechnique = NullTechnique

\* the session state is the one the stored snapshot holds
RestoredFromStore ==
    /\ isActive' = store[1].isActive
    /\ isPaused' = store[1].isPaused
    /\ remainingTime' = store[1].remainingTime
    /\ sessionDuration' = store[1].sessionDuration
    /\ techniquesUsed' = store[1].techniquesUsed
    /\ sessionStats' = store[1].sessionStats
    /\ currentFightList' = store[1].currentFightList

\* C16 (as claimed): a page load restores the stored snapshot if and only if
\* its age is strictly below the restore limit; with an older or absent
\* snapshot the engine starts Idle with no field taken from the snapshot, and
\* the stale snapshot is discarded: it is no longer in the store.
C16_RestoredIffYoungElseDiscarded ==
    [][ /\ (PageLoad(TRUE) /\ store # <<>>
              /\ now - store[1].timestamp < SESSION_RESTORE_TIME_LIMIT)
             => RestoredFromStore
        /\ (PageReload
              /\ (store = <<>>
                    \/ now - store[1].timestamp >= SESSION_RESTORE_TIME_LIMIT))
             => /\ FreshEngine'
                /\ store' = <<>> ]_vars

\* C17: no operation raises a storage failure to its caller, and what start,
\* tick, pause, resume, stop and completion leave in memory is fixed by the
\* state before the step alone, the same whether the store took the write or
\* the clear of that step (store' differs from store) or threw (store' = store).
C17_PersistenceNeverGates ==
    [][ /\ thrown' # "none"
             => /\ StartStep \/ StartWithFightListStep
                /\ thrown' \in {SESSION_ALREADY_ACTIVE, SELECT_AT_LEAST_ONE}
                /\ UNCHANGED <<engineVars, intervals, timeouts, store>>
        /\ (~isActive /\ (StartStep \/ StartWithFightListStep) /\ thrown' = "none")
             => /\ isActive' /\ ~isPaused'
                /\ remainingTime' = sessionDuration'
                /\ sessionTimer' \in intervals'
                /\ consecutiveAudioFailures' = 0
                /\ techniquesUsed' = sessionStats'.totalTechniques
        /\ (TickStep /\ remainingTime > 0)
             => /\ remainingTime' = remainingTime - 1
                /\ UNCHANGED <<isActive, isPaused, sessionTimer, techniqueTimer,
                               sessionDuration, currentTechnique, techniquesUsed,
                               currentFightList, sessionStats, intervals, timeouts>>
        /\ (TickStep /\ remainingTime = 0)
             => /\ Idle'
                /\ completeCalls' = 1
                /\ sessionStats'.sessionDuration = sessionDuration
                /\ UNCHANGED <<remainingTime, sessionDuration, techniquesUsed>>
        /\ StopSession
             => /\ Idle'
                /\ UNCHANGED <<remainingTime, sessionDuration, techniquesUsed,
                               sessionStats>>
        /\ (PauseSession /\ isActive)
             => /\ isActive' /\ isPaused'
                /\ intervals' = {} /\ timeouts' = {}
                /\ store' = store
        /\ (ResumeSession /\ isActive /\ isPaused)
             => /\ isActive' /\ ~isPaused'
                /\ sessionTimer' \in intervals'
                /\ store' = store ]_vars

\* a running session in its last half minute with two techniques announced
\* and nothing in the store: the write of its start and the write at 30
\* seconds both threw
C17_Witness ==
    /\ isActive /\ ~isPaused
    /\ ticksSinceStart > SESSION_SAVE_INTERVAL
    /\ remainingTime < SESSION_SAVE_INTERVAL
    /\ techniquesUsed = 2
    /\ sessionTimer \in intervals
    /\ store = <<>>

\* C18 (as claimed): when the page is loaded again while the session is
\* paused and the stored snapshot is within the restore window, the session
\* is restored as paused, with the remainingTime it had when paused.
C18_PausedSessionRestoredPaused ==
    [][ (/\ isActive /\ isPaused
         /\ PageLoad(TRUE)
         /\ store # <<>>
         /\ now - store[1].timestamp < SESSION_RESTORE_TIME_LIMIT)
          => /\ isActive' /\ isPaused'
             /\ remainingTime' = remainingTime ]_vars

\* C19 (as claimed): a countdown tick of a running session that leaves
\* remainingTime at a multiple of SESSION_SAVE_INTERVAL writes a snapshot whose
\* remainingTime, techniquesUsed and sessionStats equal the values in memory
\* (unless the write throws and the store stays as it was); a tick that leaves
\* any other value writes nothing.
C19_PeriodicSnapshotEqualsMemory ==
    [][ (TickStep /\ isActive /\ ~isPaused /\ remainingTime > 0)
          => IF remainingTime' % SESSION_SAVE_INTERVAL = 0
             THEN \/ store' = store
                  \/ /\ store' # <<>>
                     /\ store'[1].remainingTime = remainingTime'
                     /\ store'[1].techniquesUsed = techniquesUsed'
                     /\ store'[1].sessionStats = sessionStats'
             ELSE store' = store ]_vars

\* C20 (as claimed): while the session is paused or not active, no timer
\* callback and no step of the application's loop announces anything:
\* techniquesUsed and sessionStats stay as they are, no technique becomes
\* current and no playback is triggered.
C20_NoAnnouncementUnlessRunning ==
    [][ ((~isActive \/ isPaused) /\ (WakeUpStep \/ TickStep \/ LoopStep))
          => /\ UNCHANGED <<techniquesUsed, sessionStats>>
             /\ currentTechnique' \in {currentTechnique, NullTechnique}
             /\ played' = NullTechnique ]_vars

\* C21 (as claimed): resumeSession on a paused session that has announced a
\* technique (its pool is not empty) and has time left announces nothing itself
\* but leaves the next announcement pending, so that a technique is selected
\* and counted again before the session ends.
C21_ResumeKeepsAnnouncing ==
    [][ (ResumeSession /\ isActive /\ isPaused
           /\ techniquesUsed > 0 /\ remainingTime > 0)
          => /\ UNCHANGED <<techniquesUsed, sessionStats, currentTechnique>>
             /\ techniqueTimer' # 0
             /\ \E t \in timeouts' : t.id = techniqueTimer' ]_vars

\* a running session whose announcement woke up to an empty pool: a technique
\* was counted before, none is current and no announcement is pending
EmptiedPoolSession ==
    /\ isActive /\ ~isPaused
    /\ techniquesUsed > 0
    /\ currentTechnique = NullTechnique
    /\ timeouts = {}

\* C22: an announcement wake-up of a running session that finds no selected
\* technique in its pool announces nothing and raises no error; the session
\* stays active with its countdown armed and untouched, and goes on to its end.
C22_EmptyPoolWakeUpIsHarmless ==
    /\ [][ \A t \in timeouts :
             (/\ TechniqueTimerFire(t)
              /\ isActive /\ ~isPaused
              /\ \A i \in 1..Len(t.config.techniques) :
                    ~t.config.techniques[i].selected)
               => /\ thrown' = "none"
                  /\ currentTechnique' = NullTechnique
                  /\ isActive' /\ ~isPaused'
                  /\ sessionTimer' \in intervals'
                  /\ UNCHANGED <<techniquesUsed, sessionStats, remainingTime,
                                 sessionDuration, sessionTimer, intervals, store>> ]_vars
    /\ (EmptiedPoolSession ~> ~isActive)

\* a session whose pool was emptied after its first announcement has counted
\* down to its last second
C22_Witness ==
    /\ EmptiedPoolSession
    /\ techniquesUsed = 1
    /\ remainingTime = 1
    /\ sessionTimer \in intervals

\* the latest direct call of selectTechnique was made with a non-empty pool
CalledOnPool == pool # <<>>

\* the techniques of a pool
ElementsOf(techniques) == {techniques[i] : i \in 1..Len(techniques)}

\* C23: whatever calls were made before it, a call of selectTechnique with a
\* non-empty pool returns a technique of that pool, for each strategy.
C23_SelectionReturnsPoolElement ==
    CalledOnPool => result \in ElementsOf(pool)

\* a round-robin object that was given one and the same pool in all its
\* calls, and as many calls as the pool has techniques, or more
FullRoundOverFixedPool ==
    /\ selectionStrategy = ROUND_ROBIN
    /\ CalledOnPool
    /\ ~poolChanged
    /\ Len(window) = Len(pool)

\* C24: the results of any K consecutive round-robin calls over a fixed pool
\* of K techniques are the pool in its own order, started at some position and
\* wrapped around: every technique exactly once.
C24_RoundRobinVisitsEachOnce ==
    FullRoundOverFixedPool =>
        \E offset \in 0..(Len(pool) - 1) :
            \A j \in 1..Len(pool) :
                window[j] = pool[((offset + j - 1) % Len(pool)) + 1]

\* a round of the longest pool that began at the second technique
C24_Witness ==
    /\ FullRoundOverFixedPool
    /\ Len(pool) = MaxPoolLen
    /\ window[1] = pool[2]

\* the rank of a priority level, the highest first
PriorityRank(priority) ==
    IF priority = HIGH THEN 1 ELSE IF priority = MEDIUM THEN 2 ELSE 3

\* the latest direct call was a priority-based selection on a non-empty pool
PrioritySelected == selectionStrategy = PRIORITY_BASED /\ CalledOnPool

\* C25: priority-based selection returns a technique of the pool such that
\* no technique of the pool has a higher priority: never a medium or a low
\* one beside a high one, never a low one beside a medium one.
C25_HighestBucketWins ==
    PrioritySelected =>
        /\ result \in ElementsOf(pool)
        /\ \A t \in ElementsOf(pool) :
              PriorityRank(result.priority) <= PriorityRank(t.priority)

\* a medium technique was selected from a pool that lists a low one before it
C25_Witness ==
    /\ PrioritySelected
    /\ result.priority = MEDIUM
    /\ pool[1].priority = LOW
    /\ Len(pool) = MaxPoolLen

\* the latest direct call was a weighted-random selection on a non-empty pool
\* of positive total weight
RandomSelected ==
    /\ selectionStrategy = RANDOM
    /\ CalledOnPool
    /\ SumWeights(pool) > 0

\* the cursor after the weights of the first i techniques were subtracted from
\* the draw, multiplied by RandomGrain
CursorAfter(i) ==
    draw * SumWeights(pool) - RandomGrain * SumWeights(SubSeq(pool, 1, i))

\* the result is the first technique at which the cursor is not positive
FirstNonPositive ==
    \E i \in 1..Len(pool) :
        /\ result = pool[i]
        /\ CursorAfter(i) <= 0
        /\ \A j \in 1..(i - 1) : CursorAfter(j) > 0

\* the pool has a technique of positive weight and the result has weight 0
ZeroWeightReturned ==
    /\ result.weight = 0
    /\ \E t \in ElementsOf(pool) : t.weight > 0

\* C26 as stated: weighted-random selection returns the first technique at
\* which the cursor is not positive, and never one of weight 0 while another
\* technique has a positive weight.
C26_ZeroWeightNeverReturned ==
    RandomSelected => (FirstNonPositive /\ ~ZeroWeightReturned)

\* C26: weighted-random selection returns the first technique at which the
\* cursor is not positive; a technique of weight 0 is returned beside one of
\* positive weight only as the first of the pool, at the draw 0.
C26_ZeroWeightOnlyAtDrawZero ==
    RandomSelected =>
        /\ FirstNonPositive
        /\ ZeroWeightReturned => (draw = 0 /\ result = pool[1])

\* the draw 0 on a pool that begins with a technique of weight 0
C26_Witness ==
    /\ RandomSelected
    /\ ZeroWeightReturned
    /\ draw = 0
    /\ Len(pool) = MaxPoolLen

\* the latest direct call was a weighted-random selection on a non-empty pool
\* without a positive weight
DegenerateRandomSelected ==
    /\ selectionStrategy = RANDOM
    /\ CalledOnPool
    /\ \A t \in ElementsOf(pool) : t.weight <= 0

\* C27: weighted-random selection on a non-empty pool whose weights are all
\* zero or negative returns the first technique of the pool, whatever the draw.
C27_DegenerateWeightsFallBackToFirst ==
    DegenerateRandomSelected => result = pool[1]

\* the highest draw on a pool of a negative and a zero weight
C27_Witness ==
    /\ DegenerateRandomSelected
    /\ Len(pool) = 2
    /\ pool[1].weight < 0
    /\ draw = RandomGrain - 1

\* selectTechnique is called directly with an empty pool
EmptyPoolCallStep == \E k \in 0..(RandomGrain - 1) : SelectTechniqueCall(<<>>, k)

\* C28: selectTechnique on an empty pool throws the error 'No techniques
\* available for selection' whichever the strategy is, returns nothing, and
\* leaves the strategy object, the round-robin cursor included, as it was.
C28_EmptyPoolThrowsAndKeepsCursor ==
    [][EmptyPoolCallStep =>
          /\ thrown' = NO_TECHNIQUES_AVAILABLE
          /\ result' = NullTechnique
          /\ UNCHANGED <<selectionStrategy, currentIndex>>]_vars

\* a round-robin object in the middle of a round was given an empty pool
C28_Witness ==
    /\ thrown = NO_TECHNIQUES_AVAILABLE
    /\ selectionStrategy = ROUND_ROBIN
    /\ currentIndex > 0
    /\ pool = <<>>

\* the techniques a strategy of the given type, with its cursor at index, may
\* return from a non-empty pool
ChoicesOf(type, index, techniques) ==
    IF type = ROUND_ROBIN THEN {At(techniques, index)}
    ELSE IF type = PRIORITY_BASED
    THEN {t \in ElementsOf(techniques) :
             \A u \in ElementsOf(techniques) :
                 PriorityRank(t.priority) <= PriorityRank(u.priority)}
    ELSE ElementsOf(techniques)

\* the strategy object createStrategy makes for a type: that of the type if it
\* is one of the three, the random one otherwise
StrategyFor(strategyType) ==
    IF strategyType \in {RANDOM, ROUND_ROBIN, PRIORITY_BASED} THEN strategyType ELSE RANDOM

\* C29: setSelectionStrategy, whenever it is called, replaces the strategy and
\* leaves every field of the session and the armed timers as they were; the
\* strategy changes in no other way, and each announcement is a choice of the
\* strategy that is set when it is made: the first technique for a new
\* round-robin object, a technique of the highest priority for the
\* priority-based one.
C29_StrategySwapKeepsSession ==
    /\ [][\A strategyType \in StrategyTypes :
            SetSelectionStrategy(strategyType) =>
                /\ selectionStrategy' = StrategyFor(strategyType)
                /\ currentIndex' = 0
                /\ UNCHANGED <<engineVars, intervals, timeouts, store>>]_vars
    /\ [][selectionStrategy' # selectionStrategy =>
             \E strategyType \in StrategyTypes : SetSelectionStrategy(strategyType)]_vars
    /\ [][\A config \in Configs :
            (StartSession(config) /\ ~isActive /\ SelectedOf(config.techniques) # <<>>) =>
                currentTechnique' \in ChoicesOf(selectionStrategy, currentIndex,
                                                SelectedOf(config.techniques))]_vars
    /\ [][\A t \in timeouts :
            (TechniqueTimerFire(t) /\ isActive /\ ~isPaused
                /\ SelectedOf(t.config.techniques) # <<>>) =>
                currentTechnique' \in ChoicesOf(selectionStrategy, currentIndex,
                                                SelectedOf(t.config.techniques))]_vars

\* the strategy was swapped to the priority-based one in a running session
\* whose first announcement, of a medium technique beside a high one, stands
C29_Witness ==
    /\ selectionStrategy = PRIORITY_BASED
    /\ isActive /\ ~isPaused
    /\ techniquesUsed = 1
    /\ currentTechnique = TCross
    /\ timeouts # {}

\* C30: once init has succeeded the manager holds at least one fight list,
\* whatever lists are created, deleted and imported.
C30_AtLeastOneFightList ==
    isInitialized => Len(fightLists) >= 1

\* C31: no two fight lists of the manager have names that are equal when
\* the case of their letters is ignored.
C31_NamesUniqueIgnoringCase ==
    \A i, j \in 1..Len(fightLists) :
        i # j => ToLowerCase(fightLists[i].name) # ToLowerCase(fightLists[j].name)

\* C32: a startSession that succeeds on a pool with a selected technique has
\* made the first announcement when it returns: one technique is counted, in
\* techniquesUsed and in the statistics, it is a selected technique of the
\* pool, and exactly one announcement timeout is pending, the one held by
\* techniqueTimer.
C32_StartAnnouncesAtOnce ==
    [][\A config \in Configs :
          (/\ StartSession(config)
           /\ ~isActive
           /\ \E i \in 1..Len(config.techniques) : config.techniques[i].selected
           /\ thrown' = "none")
            => /\ techniquesUsed' = 1
               /\ sessionStats'.totalTechniques = 1
               /\ \E i \in 1..Len(config.techniques) :
                     /\ config.techniques[i].selected
                     /\ currentTechnique' = config.techniques[i]
               /\ Cardinality(timeouts') = 1
               /\ \A t \in timeouts' : t.id = techniqueTimer' /\ t.config = config]_vars

\* a session just started by a round-robin strategy whose cursor stood at the
\* second technique
C32_Witness ==
    /\ isActive /\ ~isPaused
    /\ ticksSinceStart = 0
    /\ remainingTime = sessionDuration
    /\ techniquesUsed = 1
    /\ selectionStrategy = ROUND_ROBIN
    /\ currentTechnique = TCross
    /\ Cardinality(timeouts) = 1

\* C33: every announcement the engine counts triggers exactly one playback
\* of its technique: each playback of a session is that of the technique
\* counted next after the one played before it (the first playback that of
\* the first technique counted), so that none is skipped and none repeated.
C33_EachCountedTechniquePlayedOnce ==
    [][played' # NullTechnique
          => techniquesUsed' = (IF isActive THEN lastPlayedAt ELSE 0) + 1]_vars

\* C34: at most one announcement loop of the application is live: a pending
\* wake-up that fires while another loop is waiting or playing ends there,
\* it plays nothing and arms no further wake-up.
C34_OldWakeUpEnds ==
    [][(LoopWakeUp /\ loopsWaiting + loopsPlaying > 1)
          => /\ played' = NullTechnique
             /\ loopsWaiting' + loopsPlaying' < loopsWaiting + loopsPlaying]_vars

\* C35: the engine has at most one armed countdown interval and at most one
\* pending announcement timeout, and either is armed only while the session
\* is active and not paused.
C35_TimersOnlyWhileRunning ==
    /\ Cardinality(intervals) <= 1
    /\ Cardinality(timeouts) <= 1
    /\ (intervals # {} \/ timeouts # {}) => (isActive /\ ~isPaused)

\* a session that was paused after its second announcement and has been
\* resumed: the countdown is armed again
C35_Witness ==
    /\ isActive /\ ~isPaused
    /\ techniquesUsed = 2
    /\ ticksSinceStart = -1
    /\ Cardinality(intervals) = 1
    /\ timeouts = {}

\* the sum of the counts of the categories keys, as + of JavaScript gives
\* it: NaN once a count is NaN; a category without a count, or with the
\* null a restored NaN has become, adds nothing
RECURSIVE CategorySum(_, _)
CategorySum(keys, counts) ==
    IF keys = {} THEN 0
    ELSE LET k == CHOOSE key \in keys : TRUE
             rest == CategorySum(keys \ {k}, counts)
         IN IF counts[k] = NaN \/ rest = NaN THEN NaN
            ELSE IF counts[k] \in {Absent, Null} THEN rest
            ELSE counts[k] + rest

\* C36: in every state the counts of sessionStats over the category
\* enumeration sum to sessionStats.totalTechniques, which equals
\* techniquesUsed.
C36_CategoryCountsSumToTotal ==
    /\ CategorySum(TechniqueCategory, sessionStats.techniquesByCategory)
          = sessionStats.totalTechniques
    /\ sessionStats.totalTechniques = techniquesUsed

\* C37: during a session remainingTime never increases, whatever the order
\* of ticks, pauseSession, resumeSession and hasExistingSession, and a
\* hasExistingSession during an active session changes nothing of the
\* session state held in memory.
C37_RemainingTimeNeverIncreases ==
    [][/\ (isActive /\ (TickStep \/ PauseSession \/ ResumeSession \/ HasExistingSession))
            => remainingTime' <= remainingTime
       /\ (isActive /\ HasExistingSession) => UNCHANGED engineVars]_vars

\* the techniques of config that fightList has selected, each with the
\* priority fightList gives it as its weight
FightListSelection(config, fightList) ==
    { [config.techniques[i] EXCEPT !.weight = fightList.techniques[j].priority] :
        <<i, j>> \in { p \in (1..Len(config.techniques)) \X (1..Len(fightList.techniques)) :
                         /\ fightList.techniques[p[2]].selected
                         /\ fightList.techniques[p[2]].techniqueId
                               = config.techniques[p[1]].name } }

C39_FailedSaveLeavesListsUnchanged ==
    [][thrown' = FAILED_TO_SAVE => fightLists' = fightLists]_vars

====
